---------------------------- MODULE Spec2Model ----------------------------
(***************************************************************************)
(* CHIP-8 virtual machine of chip-8-debugger (class Chip8) as a state      *)
(* machine.  The single Chip8 instance (window.chip8) is the variable      *)
(* chip8, a record of the object's fields.  Every method is a pure         *)
(* operator from a machine record to a machine record; the actions apply   *)
(* them.  The debugger (class Chip8Debugger) that drives the machine is    *)
(* the variable ui: its running flag, its runIntervalId, and the interval  *)
(* timers that are active in the browser.                                  *)
(*                                                                         *)
(* JavaScript values.  The fields hold JavaScript numbers, and the code    *)
(* can read a missing array element (undefined) and compute with it (NaN). *)
(* Both are represented by sentinel integers outside every number the      *)
(* machine holds, and every arithmetic, bitwise and comparison operator of *)
(* the code is modelled by an operator that treats them as JavaScript does.*)
(***************************************************************************)
EXTENDS Integers, Sequences, FiniteSets, TLC

VARIABLES chip8, ui

vars == <<chip8, ui>>

---------------------------------------------------------------------------
\* CHIP-8 system constants
MEM_SIZE == 4096
DISPLAY_WIDTH == 64
DISPLAY_HEIGHT == 32
STACK_SIZE == 16
NUM_REGISTERS == 16
NUM_KEYS == 16
FONTSET_SIZE == 80

\* Where loadROM places the first byte of a ROM (0x200).
ROM_START == 512

\* The fontset array, indexed from 1 (fontset[i] of the code is fontset[i+1]).
fontset ==
  << 240, 144, 144, 144, 240,
      32,  96,  32,  32, 112,
     240,  16, 240, 128, 240,
     240,  16, 240,  16, 240,
     144, 144, 240,  16,  16,
     240, 128, 240,  16, 240,
     240, 128, 240, 144, 240,
     240,  16,  32,  64,  64,
     240, 144, 240, 144, 240,
     240, 144, 240,  16, 240,
     240, 144, 240, 144, 144,
     224, 144, 224, 144, 224,
     240, 128, 128, 128, 240,
     224, 144, 144, 144, 224,
     240, 128, 240, 128, 240,
     240, 128, 240, 128, 128 >>

---------------------------------------------------------------------------
\* The element of a one-element set.  Where the code computes a value once
\* and then uses it (an operand, the fetched opcode, the machine after one
\* iteration of a loop), the model writes TheOne({use(v) : v \in {value}}),
\* which hands the value, not the expression, to its use.
TheOne(S) == CHOOSE e \in S : TRUE

---------------------------------------------------------------------------
\* JavaScript values and operators

\* The value of a missing array element or property.
Undefined == -1001
\* The result of arithmetic on undefined.
NaN == -1002
\* The initial lastInstruction.
Null == -1003

IsNum(a) == a \notin {Undefined, NaN, Null}

\* a + b
JsAdd(a, b) == IF IsNum(a) /\ IsNum(b) THEN a + b ELSE NaN
\* a - b
JsSub(a, b) == IF IsNum(a) /\ IsNum(b) THEN a - b ELSE NaN
\* a * b
JsMul(a, b) == IF IsNum(a) /\ IsNum(b) THEN a * b ELSE NaN
\* a > b: false when either side is NaN
JsGt(a, b) == IsNum(a) /\ IsNum(b) /\ a > b
\* a === b: undefined === undefined, NaN !== NaN
JsStrictEq(a, b) == a # NaN /\ b # NaN /\ a = b
\* Math.floor(a / d) for a non-negative a
JsFloorDiv(a, d) == IF IsNum(a) THEN a \div d ELSE NaN
\* a % d for a non-negative a
JsMod(a, d) == IF IsNum(a) THEN a % d ELSE NaN
\* ToInt32, the conversion every bitwise operator applies to its operands:
\* undefined and NaN become 0.  Every number the machine converts is an
\* integer of magnitude below 2^31, which ToInt32 leaves alone.
ToInt32(a) == IF IsNum(a) THEN a ELSE 0

\* One bit of a bitwise operator: op is "and", "or" or "xor".
BitOp(op, p, q) ==
  CASE op = "and" -> IF p = 1 /\ q = 1 THEN 1 ELSE 0
    [] op = "or"  -> IF p = 1 \/ q = 1 THEN 1 ELSE 0
    [] op = "xor" -> IF p # q THEN 1 ELSE 0

\* a op b on the low `bits` bits of two non-negative integers.
RECURSIVE Bitwise(_, _, _, _)
Bitwise(op, a, b, bits) ==
  IF bits = 0 THEN 0
  ELSE BitOp(op, a % 2, b % 2) + 2 * Bitwise(op, a \div 2, b \div 2, bits - 1)

\* a & b, a | b, a ^ b for operands that are non-negative after ToInt32 and
\* below 2^16 (bytes, opcodes and addresses).
JsBitwise(op, a, b) ==
  TheOne({Bitwise(op, m, n, 16) : m \in {ToInt32(a)}, n \in {ToInt32(b)}})
JsAnd(a, b) == JsBitwise("and", a, b)
JsOr(a, b) == JsBitwise("or", a, b)
JsXor(a, b) == JsBitwise("xor", a, b)
\* a & mask for mask = 2^k - 1; a may be negative (two's complement).
JsMask(a, mask) == ToInt32(a) % (mask + 1)
\* a << 1, a >> 1, a << 8 for a non-negative a below 2^16
JsShl(a, k) == ToInt32(a) * (2 ^ k)
JsShr(a, k) == ToInt32(a) \div (2 ^ k)

\* arr[k]: undefined when the array has no such element.
Get(arr, k) == IF k \in DOMAIN arr THEN arr[k] ELSE Undefined
\* arr[k] = val: an assignment past the end (or to a non-index key) adds
\* the element.
Put(arr, k, val) ==
  IF k \in DOMAIN arr THEN [arr EXCEPT ![k] = val] ELSE (k :> val) @@ arr

---------------------------------------------------------------------------
\* reset as it would be if it left loading the font to the constructor.
reset_NoFont ==
  [ memory |-> [a \in 0..(MEM_SIZE - 1) |-> 0],
    display |-> [row \in 0..(DISPLAY_HEIGHT - 1) |->
                   [col \in 0..(DISPLAY_WIDTH - 1) |-> 0]],
    keys |-> [k \in 0..(NUM_KEYS - 1) |-> FALSE],
    stack |-> [e \in 0..(STACK_SIZE - 1) |-> 0],
    v |-> [r \in 0..(NUM_REGISTERS - 1) |-> 0],
    i |-> 0,
    pc |-> ROM_START,
    sp |-> 0,
    delayTimer |-> 0,
    soundTimer |-> 0,
    drawFlag |-> FALSE,
    paused |-> FALSE,
    speed |-> 10,
    lastInstruction |-> Null,
    waitingForKeyPress |-> FALSE,
    keyRegister |-> 0 ]

\* Chip8.reset (and the constructor, which only calls it).  The fields are
\* listed with the three large arrays first.
reset ==
  [ memory |-> [a \in 0..(MEM_SIZE - 1) |->
                  IF a < FONTSET_SIZE THEN fontset[a + 1] ELSE 0],
    display |-> [row \in 0..(DISPLAY_HEIGHT - 1) |->
                   [col \in 0..(DISPLAY_WIDTH - 1) |-> 0]],
    keys |-> [k \in 0..(NUM_KEYS - 1) |-> FALSE],
    stack |-> [e \in 0..(STACK_SIZE - 1) |-> 0],
    v |-> [r \in 0..(NUM_REGISTERS - 1) |-> 0],
    i |-> 0,
    pc |-> ROM_START,
    sp |-> 0,
    delayTimer |-> 0,
    soundTimer |-> 0,
    drawFlag |-> FALSE,
    paused |-> FALSE,
    speed |-> 10,
    lastInstruction |-> Null,
    waitingForKeyPress |-> FALSE,
    keyRegister |-> 0 ]

\* loadROM as it would be if it copied the ROM to address 0.
loadROM_AtZero(s, romBuffer) ==
  LET written == {n - 1 : n \in 1..Len(romBuffer)}
  IN [s EXCEPT !.memory =
        [a \in (DOMAIN s.memory) \cup written |->
           IF a \in written THEN romBuffer[a + 1] ELSE s.memory[a]]]

\* Chip8.loadROM: romBuffer is a sequence of bytes (a Uint8Array); the loop
\* assigns memory[0x200 + i] = romBuffer[i] for each i, the addresses being
\* distinct, and an assignment past the end of the array adds the element.
loadROM(s, romBuffer) ==
  LET written == {ROM_START + (n - 1) : n \in 1..Len(romBuffer)}
  IN [s EXCEPT !.memory =
        [a \in (DOMAIN s.memory) \cup written |->
           IF a \in written THEN romBuffer[a - ROM_START + 1] ELSE s.memory[a]]]

---------------------------------------------------------------------------
\* Chip8.executeInstruction: the opcodes.  Each operator takes the machine
\* after the fetch (lastInstruction set, pc already advanced by 2) and the
\* decoded fields it uses.

\* 00E0: clear the display
Op00E0(s) ==
  [s EXCEPT !.display = [row \in 0..(DISPLAY_HEIGHT - 1) |->
                           [col \in 0..(DISPLAY_WIDTH - 1) |-> 0]],
            !.drawFlag = TRUE]

\* 00EE as it would be with the stack read before the decrement.
Op00EE_ReadBeforeDecrement(s) ==
  [s EXCEPT !.sp = s.sp - 1, !.pc = Get(s.stack, s.sp)]

\* 00EE: return from a subroutine
Op00EE(s) ==
  LET sp1 == s.sp - 1
  IN [s EXCEPT !.sp = sp1, !.pc = Get(s.stack, sp1)]

\* 1NNN: jump
Op1NNN(s, nnn) == [s EXCEPT !.pc = nnn]

\* 2NNN: call
Op2NNN(s, nnn) ==
  [s EXCEPT !.stack = Put(s.stack, s.sp, s.pc), !.sp = s.sp + 1, !.pc = nnn]

\* The skip every conditional opcode performs when its condition holds.
Skip(s, cond) == IF cond THEN [s EXCEPT !.pc = JsAdd(s.pc, 2)] ELSE s

\* 3XNN, 4XNN, 5XY0, 9XY0
Op3XNN(s, x, nn) == Skip(s, JsStrictEq(s.v[x], nn))
Op4XNN(s, x, nn) == Skip(s, ~JsStrictEq(s.v[x], nn))
Op5XY0(s, x, y) == Skip(s, JsStrictEq(s.v[x], s.v[y]))
Op9XY0(s, x, y) == Skip(s, ~JsStrictEq(s.v[x], s.v[y]))

\* 6XNN, 7XNN
Op6XNN(s, x, nn) == [s EXCEPT !.v[x] = nn]
Op7XNN(s, x, nn) == [s EXCEPT !.v[x] = JsMask(JsAdd(s.v[x], nn), 255)]

\* 8XY0 .. 8XY3
Op8XY0(s, x, y) == [s EXCEPT !.v[x] = s.v[y]]
Op8XY1(s, x, y) == [s EXCEPT !.v[x] = JsOr(s.v[x], s.v[y])]
Op8XY2(s, x, y) == [s EXCEPT !.v[x] = JsAnd(s.v[x], s.v[y])]
Op8XY3(s, x, y) == [s EXCEPT !.v[x] = JsXor(s.v[x], s.v[y])]

\* 8XY4: the sum is computed first, then v[0xF] is assigned, then v[x].
Op8XY4(s, x, y) ==
  LET sum == JsAdd(s.v[x], s.v[y])
      s1 == [s EXCEPT !.v[15] = IF JsGt(sum, 255) THEN 1 ELSE 0]
  IN [s1 EXCEPT !.v[x] = JsMask(sum, 255)]

\* 8XY5: v[0xF] is assigned first; the difference reads the registers after
\* that assignment.
Op8XY5(s, x, y) ==
  LET s1 == [s EXCEPT !.v[15] = IF JsGt(s.v[x], s.v[y]) THEN 1 ELSE 0]
  IN [s1 EXCEPT !.v[x] = JsMask(JsSub(s1.v[x], s1.v[y]), 255)]

\* 8XY6
Op8XY6(s, x) ==
  LET s1 == [s EXCEPT !.v[15] = JsAnd(s.v[x], 1)]
  IN [s1 EXCEPT !.v[x] = JsShr(s1.v[x], 1)]

\* 8XY7
Op8XY7(s, x, y) ==
  LET s1 == [s EXCEPT !.v[15] = IF JsGt(s.v[y], s.v[x]) THEN 1 ELSE 0]
  IN [s1 EXCEPT !.v[x] = JsMask(JsSub(s1.v[y], s1.v[x]), 255)]

\* 8XYE
Op8XYE(s, x) ==
  LET s1 == [s EXCEPT !.v[15] = JsShr(JsAnd(s.v[x], 128), 7)]
  IN [s1 EXCEPT !.v[x] = JsMask(JsShl(s1.v[x], 1), 255)]

\* ANNN, BNNN
OpANNN(s, nnn) == [s EXCEPT !.i = nnn]
OpBNNN(s, nnn) == [s EXCEPT !.pc = JsAdd(nnn, s.v[0])]

\* CXNN: rnd is the value of Math.floor(Math.random() * 0xFF).
OpCXNN(s, x, nn, rnd) == [s EXCEPT !.v[x] = JsAnd(rnd, nn)]

\* The loop body of DXYN as it would be with the column wrapped at the
\* display height.
DrawPixel_WrapAtHeight(s, xCoord, yCoord, k) ==
  LET row == k \div 8
      col == k % 8
      spriteByte == Get(s.memory, JsAdd(s.i, row))
  IN IF JsAnd(spriteByte, JsShr(128, col)) # 0
     THEN LET pixelY == (yCoord + row) % DISPLAY_HEIGHT
              pixelX == (xCoord + col) % DISPLAY_HEIGHT
              s1 == IF s.display[pixelY][pixelX] = 1
                    THEN [s EXCEPT !.v[15] = 1] ELSE s
          IN [s1 EXCEPT !.display[pixelY][pixelX] =
                JsXor(s1.display[pixelY][pixelX], 1)]
     ELSE s

\* The loop body of DXYN as it would be with the pixel set instead of
\* XORed.
DrawPixel_Or(s, xCoord, yCoord, k) ==
  LET row == k \div 8
      col == k % 8
      spriteByte == Get(s.memory, JsAdd(s.i, row))
  IN IF JsAnd(spriteByte, JsShr(128, col)) # 0
     THEN LET pixelY == (yCoord + row) % DISPLAY_HEIGHT
              pixelX == (xCoord + col) % DISPLAY_WIDTH
              s1 == IF s.display[pixelY][pixelX] = 1
                    THEN [s EXCEPT !.v[15] = 1] ELSE s
          IN [s1 EXCEPT !.display[pixelY][pixelX] =
                JsOr(s1.display[pixelY][pixelX], 1)]
     ELSE s

\* DXYN, the body of the two loops for one (row, col): k = 8 * row + col.
\* xCoord and yCoord were read before v[0xF] was reset.
DrawPixel(s, xCoord, yCoord, k) ==
  LET row == k \div 8
      col == k % 8
      spriteByte == Get(s.memory, JsAdd(s.i, row))
  IN IF JsAnd(spriteByte, JsShr(128, col)) # 0
     THEN LET pixelY == (yCoord + row) % DISPLAY_HEIGHT
              pixelX == (xCoord + col) % DISPLAY_WIDTH
              s1 == IF s.display[pixelY][pixelX] = 1
                    THEN [s EXCEPT !.v[15] = 1] ELSE s
          IN [s1 EXCEPT !.display[pixelY][pixelX] =
                JsXor(s1.display[pixelY][pixelX], 1)]
     ELSE s

\* DXYN, the inner loop: columns col .. 7 of one sprite row.  The set binds
\* the machine after one iteration to a value before the next one starts.
RECURSIVE DrawRow(_, _, _, _, _)
DrawRow(s, xCoord, yCoord, row, col) ==
  IF col >= 8 THEN s
  ELSE TheOne({DrawRow(s1, xCoord, yCoord, row, col + 1) :
                 s1 \in {DrawPixel(s, xCoord, yCoord, 8 * row + col)}})

\* DXYN, the outer loop: sprite rows row .. height - 1.
RECURSIVE DrawFrom(_, _, _, _, _)
DrawFrom(s, xCoord, yCoord, height, row) ==
  IF row >= height THEN s
  ELSE TheOne({DrawFrom(s1, xCoord, yCoord, height, row + 1) :
                 s1 \in {DrawRow(s, xCoord, yCoord, row, 0)}})

\* DXYN as it would be without the reset of the collision flag.
OpDXYN_NoFlagReset(s, x, y, n) ==
  LET xCoord == JsAnd(s.v[x], 255)
      yCoord == JsAnd(s.v[y], 255)
  IN [DrawFrom(s, xCoord, yCoord, n, 0) EXCEPT !.drawFlag = TRUE]

\* DXYN
OpDXYN(s, x, y, n) ==
  LET xCoord == JsAnd(s.v[x], 255)
      yCoord == JsAnd(s.v[y], 255)
      s1 == [s EXCEPT !.v[15] = 0]
  IN [DrawFrom(s1, xCoord, yCoord, n, 0) EXCEPT !.drawFlag = TRUE]

\* keys[k] as a condition: a missing element is undefined, which is falsy.
KeyDown(keys, k) == k \in DOMAIN keys /\ keys[k]

\* EX9E, EXA1
OpEX9E(s, x) == Skip(s, KeyDown(s.keys, s.v[x]))
OpEXA1(s, x) == Skip(s, ~KeyDown(s.keys, s.v[x]))

\* FX07, FX0A, FX15, FX18
OpFX07(s, x) == [s EXCEPT !.v[x] = s.delayTimer]
OpFX0A(s, x) == [s EXCEPT !.waitingForKeyPress = TRUE, !.keyRegister = x]
OpFX15(s, x) == [s EXCEPT !.delayTimer = s.v[x]]
OpFX18(s, x) == [s EXCEPT !.soundTimer = s.v[x]]

\* FX1E
OpFX1E(s, x) ==
  LET s1 == [s EXCEPT !.i = JsAdd(s.i, s.v[x])]
  IN IF JsGt(s1.i, 4095)
     THEN [s1 EXCEPT !.v[15] = 1, !.i = JsMask(s1.i, 4095)]
     ELSE s1

\* FX29
OpFX29(s, x) == [s EXCEPT !.i = JsMul(s.v[x], 5)]

\* FX33 as it would be with the tens digit taken from the whole value.
OpFX33_TensOfWhole(s, x) ==
  LET m1 == Put(s.memory, s.i, JsFloorDiv(s.v[x], 100))
      m2 == Put(m1, JsAdd(s.i, 1), JsFloorDiv(s.v[x], 10))
      m3 == Put(m2, JsAdd(s.i, 2), JsMod(s.v[x], 10))
  IN [s EXCEPT !.memory = m3]

\* FX33: three assignments in order.
OpFX33(s, x) ==
  LET m1 == Put(s.memory, s.i, JsFloorDiv(s.v[x], 100))
      m2 == Put(m1, JsAdd(s.i, 1), JsFloorDiv(JsMod(s.v[x], 100), 10))
      m3 == Put(m2, JsAdd(s.i, 2), JsMod(s.v[x], 10))
  IN [s EXCEPT !.memory = m3]

\* FX55, the loop from reg to x.
RECURSIVE StoreFrom(_, _, _)
StoreFrom(s, x, reg) ==
  IF reg > x THEN s
  ELSE TheOne({StoreFrom(s1, x, reg + 1) :
                 s1 \in {[s EXCEPT !.memory =
                            Put(s.memory, JsAdd(s.i, reg), s.v[reg])]}})

OpFX55(s, x) == StoreFrom(s, x, 0)

\* The loop of FX65 as it would be with the bound reg < x.
RECURSIVE LoadFrom_StopBeforeX(_, _, _)
LoadFrom_StopBeforeX(s, x, reg) ==
  IF reg >= x THEN s
  ELSE TheOne({LoadFrom_StopBeforeX(s1, x, reg + 1) :
                 s1 \in {[s EXCEPT !.v[reg] = Get(s.memory, JsAdd(s.i, reg))]}})

\* FX65, the loop from reg to x.
RECURSIVE LoadFrom(_, _, _)
LoadFrom(s, x, reg) ==
  IF reg > x THEN s
  ELSE TheOne({LoadFrom(s1, x, reg + 1) :
                 s1 \in {[s EXCEPT !.v[reg] = Get(s.memory, JsAdd(s.i, reg))]}})

OpFX65(s, x) == LoadFrom(s, x, 0)

---------------------------------------------------------------------------
\* Chip8.executeInstruction: fetch, decode, dispatch.

\* The opcode at pc: (memory[pc] << 8) | memory[pc + 1].
Fetch(s) == JsOr(JsShl(Get(s.memory, s.pc), 8), Get(s.memory, JsAdd(s.pc, 1)))

\* The decoded fields; the masks and shifts of the code, on an opcode in
\* 0..0xFFFF.
FieldX(opcode) == (opcode \div 256) % 16
FieldY(opcode) == (opcode \div 16) % 16
FieldN(opcode) == opcode % 16
FieldNN(opcode) == opcode % 256
FieldNNN(opcode) == opcode % 4096
\* (opcode & 0xF000) >> 12: the nibble the outer switch dispatches on.
Group(opcode) == opcode \div 4096

\* case 0x0000
Exec0(s, opcode) ==
  CASE opcode = 224 -> Op00E0(s)
    [] opcode = 238 -> Op00EE(s)
    [] OTHER -> s

\* case 0x8000
Exec8(s, opcode) ==
  LET x == FieldX(opcode)
      y == FieldY(opcode)
      n == FieldN(opcode)
  IN CASE n = 0 -> Op8XY0(s, x, y)
       [] n = 1 -> Op8XY1(s, x, y)
       [] n = 2 -> Op8XY2(s, x, y)
       [] n = 3 -> Op8XY3(s, x, y)
       [] n = 4 -> Op8XY4(s, x, y)
       [] n = 5 -> Op8XY5(s, x, y)
       [] n = 6 -> Op8XY6(s, x)
       [] n = 7 -> Op8XY7(s, x, y)
       [] n = 14 -> Op8XYE(s, x)
       [] OTHER -> s

\* case 0xE000
ExecE(s, opcode) ==
  LET x == FieldX(opcode)
      nn == FieldNN(opcode)
  IN CASE nn = 158 -> OpEX9E(s, x)
       [] nn = 161 -> OpEXA1(s, x)
       [] OTHER -> s

\* case 0xF000
ExecF(s, opcode) ==
  LET x == FieldX(opcode)
      nn == FieldNN(opcode)
  IN CASE nn = 7 -> OpFX07(s, x)
       [] nn = 10 -> OpFX0A(s, x)
       [] nn = 21 -> OpFX15(s, x)
       [] nn = 24 -> OpFX18(s, x)
       [] nn = 30 -> OpFX1E(s, x)
       [] nn = 41 -> OpFX29(s, x)
       [] nn = 51 -> OpFX33(s, x)
       [] nn = 85 -> OpFX55(s, x)
       [] nn = 101 -> OpFX65(s, x)
       [] OTHER -> s

\* The switch on opcode & 0xF000, applied to the machine after the fetch.
Dispatch(s, opcode, rnd) ==
  LET x == FieldX(opcode)
      y == FieldY(opcode)
      n == FieldN(opcode)
      nn == FieldNN(opcode)
      nnn == FieldNNN(opcode)
      g == Group(opcode)
  IN CASE g = 0 -> Exec0(s, opcode)
       [] g = 1 -> Op1NNN(s, nnn)
       [] g = 2 -> Op2NNN(s, nnn)
       [] g = 3 -> Op3XNN(s, x, nn)
       [] g = 4 -> Op4XNN(s, x, nn)
       [] g = 5 -> Op5XY0(s, x, y)
       [] g = 6 -> Op6XNN(s, x, nn)
       [] g = 7 -> Op7XNN(s, x, nn)
       [] g = 8 -> Exec8(s, opcode)
       [] g = 9 -> Op9XY0(s, x, y)
       [] g = 10 -> OpANNN(s, nnn)
       [] g = 11 -> OpBNNN(s, nnn)
       [] g = 12 -> OpCXNN(s, x, nn, rnd)
       [] g = 13 -> OpDXYN(s, x, y, n)
       [] g = 14 -> ExecE(s, opcode)
       [] g = 15 -> ExecF(s, opcode)

\* The fetch: lastInstruction = opcode and pc += 2.
AfterFetch(s) == [s EXCEPT !.lastInstruction = Fetch(s), !.pc = JsAdd(s.pc, 2)]

\* Chip8.executeInstruction; rnd is the value Math.floor(Math.random() * 0xFF)
\* takes if the opcode is CXNN.
executeInstruction(s, rnd) ==
  TheOne({Dispatch(s1, opcode, rnd) : s1 \in {AfterFetch(s)},
                                      opcode \in {Fetch(s)}})

\* The indices of this.memory one executeInstruction call reads or writes:
\* the fetch at pc and pc + 1, the sprite rows of DXYN, the three cells of
\* FX33, the cells i .. i + x of FX55 and FX65.
MemoryAccesses(s) ==
  LET opcode == Fetch(s)
      x == FieldX(opcode)
      n == FieldN(opcode)
      nn == FieldNN(opcode)
      g == Group(opcode)
  IN {s.pc, JsAdd(s.pc, 1)}
     \cup (IF g = 13 THEN {JsAdd(s.i, row) : row \in 0..(n - 1)}
           ELSE IF g = 15 /\ nn = 51 THEN {s.i, JsAdd(s.i, 1), JsAdd(s.i, 2)}
           ELSE IF g = 15 /\ nn \in {85, 101}
                THEN {JsAdd(s.i, reg) : reg \in 0..x}
           ELSE {})

\* The values Math.floor(Math.random() * 0xFF) can take: Math.random() is in
\* [0, 1).
RandomValues == 0..254

\* The outcomes of one executeInstruction call.
executeInstructionOutcomes(s) ==
  IF Group(Fetch(s)) = 12
  THEN {executeInstruction(s, rnd) : rnd \in RandomValues}
  ELSE {executeInstruction(s, 0)}

\* The loop of emulateCycle as it would be without the test of
\* waitingForKeyPress.
RECURSIVE CycleLoop_IgnoreWait(_, _)
CycleLoop_IgnoreWait(S, i) ==
  UNION {IF i >= s.speed THEN {s}
         ELSE CycleLoop_IgnoreWait(executeInstructionOutcomes(s), i + 1) :
           s \in S}

\* Chip8.emulateCycle, the loop: the outcomes of iterations i .. speed - 1
\* from each machine of the set S.
RECURSIVE CycleLoop(_, _)
CycleLoop(S, i) ==
  UNION {IF i >= s.speed THEN {s}
         ELSE CycleLoop(IF s.waitingForKeyPress THEN {s}
                        ELSE executeInstructionOutcomes(s),
                        i + 1) :
           s \in S}

\* Chip8.emulateCycle, the timer updates after the loop.
UpdateTimers(s) ==
  LET s1 == IF JsGt(s.delayTimer, 0)
            THEN [s EXCEPT !.delayTimer = JsSub(s.delayTimer, 1)] ELSE s
  IN IF JsGt(s1.soundTimer, 0)
     THEN [s1 EXCEPT !.soundTimer = JsSub(s1.soundTimer, 1)] ELSE s1

\* emulateCycle as it would be with the timers updated before the loop.
emulateCycleOutcomes_TimersFirst(s) ==
  IF s.paused THEN {s}
  ELSE CycleLoop({UpdateTimers(s)}, 0)

\* emulateCycle as it would be without the test of paused.
emulateCycleOutcomes_IgnorePaused(s) ==
  {UpdateTimers(t) : t \in CycleLoop({s}, 0)}

\* The outcomes of one emulateCycle call.
emulateCycleOutcomes(s) ==
  IF s.paused THEN {s}
  ELSE {UpdateTimers(t) : t \in CycleLoop({s}, 0)}

\* keyPress as it would be without the latch into the waiting register.
keyPress_NoLatch(s, keyCode) ==
  LET s1 == [s EXCEPT !.keys = Put(s.keys, keyCode, TRUE)]
  IN IF s1.waitingForKeyPress
     THEN [s1 EXCEPT !.waitingForKeyPress = FALSE]
     ELSE s1

\* Chip8.keyPress
keyPress(s, keyCode) ==
  LET s1 == [s EXCEPT !.keys = Put(s.keys, keyCode, TRUE)]
  IN IF s1.waitingForKeyPress
     THEN [s1 EXCEPT !.v[s1.keyRegister] = keyCode, !.waitingForKeyPress = FALSE]
     ELSE s1

\* Chip8.keyRelease
keyRelease(s, keyCode) == [s EXCEPT !.keys = Put(s.keys, keyCode, FALSE)]

---------------------------------------------------------------------------
\* The debugger (Chip8Debugger): the part of it that drives the machine.

\* The fields the constructor sets, and the browser's timers: intervals is
\* the set of ids of the active interval timers, created the number of
\* setInterval calls so far (the id setInterval returns is a fresh positive
\* integer).
Debugger ==
  [ running |-> FALSE,
    runIntervalId |-> Null,
    intervals |-> {},
    created |-> 0 ]

\* The breakpoints set: created empty, and no code adds to it.
breakpoints == {}

\* toggleRun as it would be without the clearInterval call.
toggleRun_NoClear(u) ==
  IF ~u.running
  THEN [u EXCEPT !.running = TRUE,
                 !.runIntervalId = u.created + 1,
                 !.intervals = @ \cup {u.created + 1},
                 !.created = @ + 1]
  ELSE [u EXCEPT !.running = FALSE]

\* Chip8Debugger.toggleRun: running is flipped; when it became true an
\* interval timer is set and its id kept, otherwise the timer with the kept
\* id is cleared (clearInterval of an id that is not active does nothing).
toggleRun(u) ==
  IF ~u.running
  THEN [u EXCEPT !.running = TRUE,
                 !.runIntervalId = u.created + 1,
                 !.intervals = @ \cup {u.created + 1},
                 !.created = @ + 1]
  ELSE [u EXCEPT !.running = FALSE,
                 !.intervals = @ \ {u.runIntervalId}]

\* Chip8Debugger.reset, its effect on the debugger: a running debugger is
\* stopped.  (The machine is reset by chip8.reset().)
debuggerReset(u) == IF u.running THEN toggleRun(u) ELSE u

\* The host consuming a frame: if drawFlag is set the display is rendered
\* and the flag cleared.
ConsumeFrame(s) == IF s.drawFlag THEN [s EXCEPT !.drawFlag = FALSE] ELSE s

\* step as it would be without clearing the draw flag.
stepOutcomes_KeepFlag(s) ==
  IF ~s.paused THEN executeInstructionOutcomes(s) ELSE {s}

\* Chip8Debugger.step, its outcomes on the machine.
stepOutcomes(s) ==
  IF ~s.paused
  THEN {ConsumeFrame(t) : t \in executeInstructionOutcomes(s)}
  ELSE {s}

\* The interval callback of toggleRun, its outcomes on the machine: one
\* emulateCycle, then the frame is consumed.
tickOutcomes(s) == {ConsumeFrame(t) : t \in emulateCycleOutcomes(s)}

\* The interval callback, its effect on the debugger when the cycle left the
\* machine t: a breakpoint at t.pc pauses the run.
tickDebugger(u, t, bps) == IF t.pc \in bps THEN toggleRun(u) ELSE u

---------------------------------------------------------------------------
\* The disassembler.  A string the code builds is modelled as the sequence
\* of its pieces: the literal parts of the template and the digits of each
\* formatted number, one character per element.

HexDigits ==
  <<"0", "1", "2", "3", "4", "5", "6", "7",
    "8", "9", "a", "b", "c", "d", "e", "f">>

\* n.toString(16) for a non-negative integer
RECURSIVE ToHex(_)
ToHex(n) ==
  IF n < 16 THEN <<HexDigits[n + 1]>>
  ELSE ToHex(n \div 16) \o <<HexDigits[(n % 16) + 1]>>

\* `${n}`: the decimal digits of a non-negative integer
RECURSIVE ToDec(_)
ToDec(n) ==
  IF n < 10 THEN <<HexDigits[n + 1]>>
  ELSE ToDec(n \div 10) \o <<HexDigits[(n % 10) + 1]>>

\* The executor takes a console.warn path for the opcode: the default case
\* of the 0x0000, 0x8000, 0xE000 or 0xF000 switch.
WarnsUnknown(opcode) ==
  LET g == Group(opcode)
      n == FieldN(opcode)
      nn == FieldNN(opcode)
  IN \/ g = 0 /\ opcode \notin {224, 238}
     \/ g = 8 /\ n \notin {0, 1, 2, 3, 4, 5, 6, 7, 14}
     \/ g = 14 /\ nn \notin {158, 161}
     \/ g = 15 /\ nn \notin {7, 10, 21, 24, 30, 41, 51, 85, 101}

\* Chip8.disassembleInstruction: the first piece is the mnemonic.
disassembleInstruction(opcode) ==
  LET x == ToHex(FieldX(opcode))
      y == ToHex(FieldY(opcode))
      n == FieldN(opcode)
      nn == FieldNN(opcode)
      nnn == ToHex(FieldNNN(opcode))
      g == Group(opcode)
      VxVy(m) == <<m, " V">> \o x \o <<", V">> \o y
      VxNN(m) == <<m, " V">> \o x \o <<", ">> \o ToHex(nn)
  IN CASE g = 0 /\ opcode = 224 -> <<"CLS">>
       [] g = 0 /\ opcode = 238 -> <<"RET">>
       [] g = 0 /\ opcode \notin {224, 238} -> <<"SYS", " ">> \o nnn
       [] g = 1 -> <<"JP", " ">> \o nnn
       [] g = 2 -> <<"CALL", " ">> \o nnn
       [] g = 3 -> VxNN("SE")
       [] g = 4 -> VxNN("SNE")
       [] g = 5 -> VxVy("SE")
       [] g = 6 -> VxNN("LD")
       [] g = 7 -> VxNN("ADD")
       [] g = 8 /\ n = 0 -> VxVy("LD")
       [] g = 8 /\ n = 1 -> VxVy("OR")
       [] g = 8 /\ n = 2 -> VxVy("AND")
       [] g = 8 /\ n = 3 -> VxVy("XOR")
       [] g = 8 /\ n = 4 -> VxVy("ADD")
       [] g = 8 /\ n = 5 -> VxVy("SUB")
       [] g = 8 /\ n = 6 -> <<"SHR", " V">> \o x
       [] g = 8 /\ n = 7 -> VxVy("SUBN")
       [] g = 8 /\ n = 14 -> <<"SHL", " V">> \o x
       [] g = 9 -> VxVy("SNE")
       [] g = 10 -> <<"LD", " I, ">> \o nnn
       [] g = 11 -> <<"JP", " V0, ">> \o nnn
       [] g = 12 -> VxNN("RND")
       [] g = 13 -> VxVy("DRW") \o <<", ">> \o ToDec(n)
       [] g = 14 /\ nn = 158 -> <<"SKP", " V">> \o x
       [] g = 14 /\ nn = 161 -> <<"SKNP", " V">> \o x
       [] g = 15 /\ nn = 7 -> <<"LD", " V">> \o x \o <<", DT">>
       [] g = 15 /\ nn = 10 -> <<"LD", " V">> \o x \o <<", K">>
       [] g = 15 /\ nn = 21 -> <<"LD", " DT, V">> \o x
       [] g = 15 /\ nn = 24 -> <<"LD", " ST, V">> \o x
       [] g = 15 /\ nn = 30 -> <<"ADD", " I, V">> \o x
       [] g = 15 /\ nn = 41 -> <<"LD", " F, V">> \o x
       [] g = 15 /\ nn = 51 -> <<"LD", " B, V">> \o x
       [] g = 15 /\ nn = 85 -> <<"LD", " [I], V">> \o x
       [] g = 15 /\ nn = 101 -> <<"LD", " V">> \o x \o <<", [I]">>
       [] OTHER -> <<"UNKNOWN", " (">> \o ToHex(opcode) \o <<")">>

\* Chip8.getInstructionDescription
getInstructionDescription(opcode) ==
  LET x == ToHex(FieldX(opcode))
      y == ToHex(FieldY(opcode))
      n == FieldN(opcode)
      nn == ToHex(FieldNN(opcode))
      nnn == ToHex(FieldNNN(opcode))
      g == Group(opcode)
      key == FieldNN(opcode)
  IN CASE g = 0 /\ opcode = 224 -> <<"Clear the display">>
       [] g = 0 /\ opcode = 238 -> <<"Return from subroutine">>
       [] g = 0 /\ opcode \notin {224, 238} ->
            <<"Call machine code routine at address ">> \o nnn
       [] g = 1 -> <<"Jump to address ">> \o nnn
       [] g = 2 -> <<"Call subroutine at address ">> \o nnn
       [] g = 3 -> <<"Skip next instruction if V">> \o x \o <<" equals ">> \o nn
       [] g = 4 -> <<"Skip next instruction if V">> \o x
                     \o <<" doesn't equal ">> \o nn
       [] g = 5 -> <<"Skip next instruction if V">> \o x \o <<" equals V">> \o y
       [] g = 6 -> <<"Set V">> \o x \o <<" to ">> \o nn
       [] g = 7 -> <<"Add ">> \o nn \o <<" to V">> \o x
       [] g = 8 /\ n = 0 -> <<"Set V">> \o x \o <<" to the value of V">> \o y
       [] g = 8 /\ n = 1 -> <<"Set V">> \o x \o <<" to V">> \o x
                              \o <<" OR V">> \o y
       [] g = 8 /\ n = 2 -> <<"Set V">> \o x \o <<" to V">> \o x
                              \o <<" AND V">> \o y
       [] g = 8 /\ n = 3 -> <<"Set V">> \o x \o <<" to V">> \o x
                              \o <<" XOR V">> \o y
       [] g = 8 /\ n = 4 -> <<"Add V">> \o y \o <<" to V">> \o x
                              \o <<" with carry">>
       [] g = 8 /\ n = 5 -> <<"Subtract V">> \o y \o <<" from V">> \o x
       [] g = 8 /\ n = 6 -> <<"Shift V">> \o x \o <<" right by 1">>
       [] g = 8 /\ n = 7 -> <<"Set V">> \o x \o <<" to V">> \o y
                              \o <<" - V">> \o x
       [] g = 8 /\ n = 14 -> <<"Shift V">> \o x \o <<" left by 1">>
       [] g = 9 -> <<"Skip next instruction if V">> \o x
                     \o <<" doesn't equal V">> \o y
       [] g = 10 -> <<"Set I to address ">> \o nnn
       [] g = 11 -> <<"Jump to address ">> \o nnn \o <<" + V0">>
       [] g = 12 -> <<"Set V">> \o x \o <<" to a random number AND ">> \o nn
       [] g = 13 -> <<"Draw ">> \o ToDec(n) \o <<"-byte sprite at (V">> \o x
                      \o <<", V">> \o y \o <<")">>
       [] g = 14 /\ key = 158 -> <<"Skip next instruction if key V">> \o x
                                   \o <<" is pressed">>
       [] g = 14 /\ key = 161 -> <<"Skip next instruction if key V">> \o x
                                   \o <<" is not pressed">>
       [] g = 15 /\ key = 7 -> <<"Set V">> \o x
                                 \o <<" to the value of the delay timer">>
       [] g = 15 /\ key = 10 -> <<"Wait for key press and store in V">> \o x
       [] g = 15 /\ key = 21 -> <<"Set delay timer to V">> \o x
       [] g = 15 /\ key = 24 -> <<"Set sound timer to V">> \o x
       [] g = 15 /\ key = 30 -> <<"Add V">> \o x \o <<" to I">>
       [] g = 15 /\ key = 41 -> <<"Set I to the location of sprite for digit V">>
                                  \o x
       [] g = 15 /\ key = 51 -> <<"Store BCD representation of V">> \o x
                                  \o <<" in memory at I, I+1, I+2">>
       [] g = 15 /\ key = 85 -> <<"Store V0 to V">> \o x
                                  \o <<" in memory starting at address I">>
       [] g = 15 /\ key = 101 -> <<"Load V0 to V">> \o x
                                   \o <<" from memory starting at address I">>
       [] OTHER -> <<"Unknown instruction (">> \o ToHex(opcode) \o <<")">>

---------------------------------------------------------------------------
\* ROM images the host loads.  A program is a sequence of 16-bit opcodes,
\* stored big-endian.

RECURSIVE Bytes(_)
Bytes(ops) ==
  IF ops = <<>> THEN <<>>
  ELSE <<Head(ops) \div 256, Head(ops) % 256>> \o Bytes(Tail(ops))

\* Opcode words by mnemonic.
CLS == 224
RET == 238
JP(nnn) == 4096 + nnn
CALL(nnn) == 2 * 4096 + nnn
SE(x, nn) == 3 * 4096 + x * 256 + nn
SNE(x, nn) == 4 * 4096 + x * 256 + nn
SEV(x, y, n) == 5 * 4096 + x * 256 + y * 16 + n
LD(x, nn) == 6 * 4096 + x * 256 + nn
ADD(x, nn) == 7 * 4096 + x * 256 + nn
ALU(x, y, n) == 8 * 4096 + x * 256 + y * 16 + n
SNEV(x, y, n) == 9 * 4096 + x * 256 + y * 16 + n
LDI(nnn) == 10 * 4096 + nnn
JPV0(nnn) == 11 * 4096 + nnn
RND(x, nn) == 12 * 4096 + x * 256 + nn
DRW(x, y, n) == 13 * 4096 + x * 256 + y * 16 + n
KEYOP(x, nn) == 14 * 4096 + x * 256 + nn
MISC(x, nn) == 15 * 4096 + x * 256 + nn

\* The address of the k-th opcode (k = 0, 1, ...) of a loaded program.
At(k) == ROM_START + 2 * k

\* The largest ROM that fits: 4096 - 512 bytes.
MaxRomBytes == MEM_SIZE - ROM_START

\* A full-size ROM: the program, zeros, and one opcode in the last two bytes
\* of memory (addresses 0xFFE and 0xFFF).
WithTail(ops, tail) ==
  LET head == Bytes(ops)
  IN [n \in 1..MaxRomBytes |->
        IF n <= Len(head) THEN head[n]
        ELSE IF n = MaxRomBytes - 1 THEN tail \div 256
        ELSE IF n = MaxRomBytes THEN tail % 256
        ELSE 0]

\* Register indices and byte values the parametrised programs range over.
RegSamples == {0, 1, 15}
ByteSamples == {0, 1, 128, 255}
\* Deepest recursion of the call-depth programs: reaches a CALL at sp = 16.
MaxDepth == 17

\* Subroutine programs: a bare RET; unbounded recursion; CALL then RET
\* (next to a jump loop); nested calls unwinding past the bottom of the stack.
StackPrograms ==
  { <<RET>>,
    <<CALL(At(0))>>,
    <<CALL(At(2)), JP(At(0)), RET>>,
    <<CALL(At(1)), CALL(At(2)), RET>> }

\* Recurse to depth d - 1, then CALL a subroutine that is a single RET, then
\* halt in a jump to self.
DepthPrograms ==
  { <<ADD(0, 1), SE(0, d), CALL(At(0)), CALL(At(5)), JP(At(4)), RET>> :
      d \in 1..MaxDepth }

\* Programs that run the program counter past the end of memory.
EdgePrograms ==
  { <<JP(4094)>>, <<JP(4095)>>,
    <<LD(0, 2), JPV0(4095)>>,
    <<LD(0, 0), JPV0(4095), JP(At(2))>> }

\* Full-size ROMs with an opcode at 0xFFE.
TailRoms ==
  { WithTail(<<JP(4094), JP(At(1))>>, CALL(At(1))),
    WithTail(<<JP(4094), JP(At(1))>>, SE(0, 0)),
    WithTail(<<JP(4094), JP(At(1))>>, JP(At(1))) }

\* Register arithmetic: load two registers, apply 8XYn, halt.
AluPrograms ==
  { <<LD(x, a), LD(y, b), ALU(x, y, n), JP(At(3))>> :
      x \in RegSamples, y \in RegSamples,
      a \in ByteSamples, b \in ByteSamples, n \in {4, 5, 7} }

\* Index register and block load/store at the end of memory.
IndexPrograms ==
  { <<LDI(4095), MISC(1, 101), MISC(1, 30), JP(At(3))>>,
    <<LDI(4095), LD(0, 1), MISC(0, 30), JP(At(3))>>,
    <<LDI(4000), LD(15, 200), MISC(15, 30), JP(At(3))>>,
    <<LD(0, 255), MISC(0, 41), JP(At(2))>>,
    <<LDI(4094), LD(0, 34), LD(1, 2), MISC(1, 85), JP(4094)>>,
    <<LDI(4095), LD(1, 7), MISC(1, 85), MISC(1, 101), JP(At(4))>> }

\* The ROM of the host's "Load Test ROM" button (createTestROM).
TestRom ==
  << 162, 2, 96, 12, 97, 8, 208, 21, 240, 10, 0, 224, 18, 0,
     240, 144, 144, 144, 240 >>

\* Timers.  Set both timers to 3, read the delay timer, halt; set both
\* timers to 3, wait for a key into V5, read the delay timer into V2, halt;
\* load V1 from the cell after the end of memory, set the delay timer from
\* it, halt.
TimerPrograms ==
  { <<LD(0, 3), MISC(0, 21), MISC(0, 24), MISC(1, 7), JP(At(3))>>,
    <<LD(1, 3), MISC(1, 21), MISC(1, 24), MISC(5, 10), MISC(2, 7),
      JP(At(5))>>,
    <<LDI(4095), MISC(1, 101), MISC(1, 21), JP(At(3))>> }

\* Keypad, random numbers, drawing, BCD, unassigned opcodes.
DevicePrograms ==
  { <<MISC(0, 10), KEYOP(0, 158), JP(At(0)), JP(At(3))>>,
    <<LD(0, 10), KEYOP(0, 161), JP(At(0)), JP(At(3))>>,
    <<RND(0, 255), JP(At(1))>>,
    <<LDI(At(3)), DRW(0, 1, 5), JP(At(1)), 61584, 37008, 37104>>,
    <<LD(0, 123), LDI(At(4)), MISC(0, 51), JP(At(3))>>,
    <<CLS, 1, ALU(0, 0, 8), KEYOP(0, 0), MISC(0, 0), JP(At(5))>> }

\* Register comparisons with a non-zero last nibble (5XY1 on equal registers,
\* 9XY1 on different ones) and with a zero one.
ComparePrograms ==
  { <<LD(0, 7), LD(1, 7), SEV(0, 1, 1), JP(At(3)), JP(At(4))>>,
    <<LD(0, 1), SNEV(0, 1, 1), JP(At(2)), JP(At(3))>>,
    <<LD(0, 1), SEV(0, 1, 0), SNEV(0, 1, 0), JP(At(3)), JP(At(4))>> }

\* Key skips on a register that holds 26 (0x1A), a value above 15 whose low
\* nibble is the key the host delivers.
KeyPrograms ==
  { <<LD(0, 26), KEYOP(0, 158), JP(At(2)), JP(At(3))>>,
    <<LD(0, 26), KEYOP(0, 161), JP(At(2)), JP(At(3))>> }

\* Sprites.  The same two-row sprite drawn three times in a row; drawn three
\* times at columns 0, 4 and 40 (a partial overlap, then none); a one-bit
\* sprite at (63, 0) and at (64, 0); a three-row sprite at (62, 31) with VF
\* as the x register; a sprite at (255, 255); an all-zero sprite and a
\* sprite of no rows, each drawn twice.  The sprite bytes follow the halting
\* jump.
DrawPrograms ==
  { <<LDI(At(5)), DRW(0, 1, 2), DRW(0, 1, 2), DRW(0, 1, 2), JP(At(4)),
      65409>>,
    <<LDI(At(7)), DRW(0, 1, 2), LD(0, 4), DRW(0, 1, 2), LD(0, 40),
      DRW(0, 1, 2), JP(At(6)), 65409>>,
    <<LDI(At(6)), LD(0, 63), DRW(0, 1, 1), LD(0, 64), DRW(0, 1, 1),
      JP(At(5)), 32768>>,
    <<LDI(At(5)), LD(15, 62), LD(1, 31), DRW(15, 1, 3), JP(At(4)),
      65535, 65280>>,
    <<LDI(At(5)), LD(0, 255), LD(1, 255), DRW(0, 1, 2), JP(At(4)), 50115>>,
    <<LDI(At(4)), DRW(0, 1, 2), DRW(0, 1, 2), JP(At(3)), 0>>,
    <<DRW(0, 0, 0), DRW(0, 0, 0), JP(At(2))>> }

\* BCD of VF = 255 and of V1 = 200 at the last two cells of memory.
BcdPrograms ==
  { <<LD(15, 255), LDI(At(4)), MISC(15, 51), JP(At(3))>>,
    <<LD(1, 200), LDI(4094), MISC(1, 51), JP(At(3))>> }

\* Block store, new values in the stored registers, block load: V0..V1 of
\* three registers, and all sixteen.
BlockPrograms ==
  { <<LD(0, 17), LD(1, 34), LD(2, 51), LDI(At(9)), MISC(1, 85), LD(0, 0),
      LD(1, 255), MISC(1, 101), JP(At(8))>>,
    <<LD(0, 1), LD(15, 9), LDI(3000), MISC(15, 85), LD(0, 0), LD(15, 0),
      MISC(15, 101), JP(At(7))>> }

\* A ROM one byte too long: a jump to self, zeros, and a last byte 0xAB that
\* falls on address 4096.
OversizedRoms ==
  { [n \in 1..(MaxRomBytes + 1) |->
       IF n = 1 THEN JP(At(0)) \div 256
       ELSE IF n = 2 THEN JP(At(0)) % 256
       ELSE IF n = MaxRomBytes + 1 THEN 171
       ELSE 0] }

Roms ==
  {Bytes(p) : p \in StackPrograms \cup DepthPrograms \cup EdgePrograms
                    \cup AluPrograms \cup IndexPrograms \cup TimerPrograms
                    \cup DevicePrograms \cup ComparePrograms
                    \cup KeyPrograms \cup DrawPrograms \cup BcdPrograms
                    \cup BlockPrograms}
  \cup TailRoms \cup {TestRom} \cup OversizedRoms

\* Keys the host delivers.
KeySamples == {10}

\* Positions of the speed slider (its range is 1..100; reset() sets 10).
SpeedSamples == {1, 10}

---------------------------------------------------------------------------
\* Bounds of the exploration: the program counter, and the stack pointer above
\* STACK_SIZE and below 0, grow without limit in the code.
MaxPc == 4100
MaxOverflow == 2
MaxUnderflow == 2

InBounds(s) ==
  /\ IsNum(s.pc) => s.pc <= MaxPc
  /\ s.sp <= STACK_SIZE + MaxOverflow
  /\ s.sp >= 0 - MaxUnderflow

---------------------------------------------------------------------------
\* The state machine: the calls the host makes on the machine.

Init == chip8 = reset /\ ui = Debugger

\* reset()
Reset == chip8' = reset /\ UNCHANGED ui

\* loadROM(buffer).  Both callers (the file picker's onload and the test-ROM
\* button) call reset() immediately before it, so it is called on the machine
\* as reset() leaves it.
LoadROM ==
  /\ chip8 = reset
  /\ \E rom \in Roms : chip8' = loadROM(chip8, rom)
  /\ UNCHANGED ui

\* The same, for the programs that use the timers.
LoadTimerROM ==
  /\ chip8 = reset
  /\ \E p \in TimerPrograms : chip8' = loadROM(chip8, Bytes(p))
  /\ UNCHANGED ui

\* executeInstruction()
ExecuteInstruction ==
  /\ \E t \in executeInstructionOutcomes(chip8) : InBounds(t) /\ chip8' = t
  /\ UNCHANGED ui

\* emulateCycle()
EmulateCycle ==
  /\ \E t \in emulateCycleOutcomes(chip8) : InBounds(t) /\ chip8' = t
  /\ UNCHANGED ui

\* keyPress(k), keyRelease(k)
KeyPress ==
  (\E k \in KeySamples : chip8' = keyPress(chip8, k)) /\ UNCHANGED ui
KeyRelease ==
  (\E k \in KeySamples : chip8' = keyRelease(chip8, k)) /\ UNCHANGED ui

\* The host writes paused.
SetPaused ==
  (\E b \in BOOLEAN : chip8' = [chip8 EXCEPT !.paused = b]) /\ UNCHANGED ui

\* The host's speed slider writes speed.
SetSpeed ==
  (\E n \in SpeedSamples : chip8' = [chip8 EXCEPT !.speed = n])
  /\ UNCHANGED ui

Next ==
  \/ Reset
  \/ LoadROM
  \/ ExecuteInstruction
  \/ EmulateCycle
  \/ KeyPress
  \/ KeyRelease
  \/ SetPaused
  \/ SetSpeed

Spec == Init /\ [][Next]_vars

\* The host running a program: a ROM is loaded, the run timer (setInterval,
\* every 16 ms) keeps calling emulateCycle(), and keys go down and up.
NextRun ==
  \/ LoadTimerROM
  \/ EmulateCycle
  \/ KeyPress
  \/ KeyRelease

SpecRun == Init /\ [][NextRun]_vars /\ WF_vars(EmulateCycle)

\* The page: the machine is driven through the debugger only.  The events
\* are the clicks on Step, Run/Pause, Reset and Load Test ROM, a ROM file
\* read by the file picker, a firing of an active interval timer, the keys
\* and the speed slider.

\* ROM files picked in the page: draw a sprite, clear the screen, repeat;
\* set both timers to 3, read the delay timer, halt.
HostPrograms ==
  { <<LDI(At(4)), DRW(0, 1, 2), CLS, JP(At(1)), 65409>>,
    <<LD(0, 3), MISC(0, 21), MISC(0, 24), MISC(1, 7), JP(At(3))>> }
HostRoms == {Bytes(p) : p \in HostPrograms}

\* Interval timers created in one exploration.
MaxIntervals == 2

\* Step button
Step ==
  /\ \E t \in stepOutcomes(chip8) : InBounds(t) /\ chip8' = t
  /\ UNCHANGED ui

\* Run/Pause button
ToggleRun ==
  /\ ui.running \/ ui.created < MaxIntervals
  /\ ui' = toggleRun(ui)
  /\ UNCHANGED chip8

\* An active interval timer fires.
Tick ==
  /\ ui.intervals # {}
  /\ \E t \in tickOutcomes(chip8) :
       /\ InBounds(t)
       /\ chip8' = t
       /\ ui' = tickDebugger(ui, t, breakpoints)

\* Reset button
DebuggerReset == ui' = debuggerReset(ui) /\ chip8' = reset

\* The machine after chip8.reset() and chip8.loadROM(rom), for each ROM
\* file and for the test ROM (reset() leaves one state, whatever the state
\* before).
HostImages == {loadROM(reset, rom) : rom \in HostRoms}
TestImage == loadROM(reset, TestRom)

\* The file picker's onload: reset(), then chip8.loadROM(buffer).
LoadRomFile ==
  /\ ui' = debuggerReset(ui)
  /\ chip8' \in HostImages

\* Load Test ROM button: reset(), then chip8.loadROM(createTestROM()).
LoadTestRom ==
  /\ ui' = debuggerReset(ui)
  /\ chip8' = TestImage

NextUI ==
  \/ Step
  \/ ToggleRun
  \/ Tick
  \/ DebuggerReset
  \/ LoadRomFile
  \/ LoadTestRom
  \/ KeyPress
  \/ KeyRelease
  \/ SetSpeed

SpecUI == Init /\ [][NextUI]_vars

---------------------------------------------------------------------------
\* Properties.

\* The opcode about to be fetched, and the machine after executing it (for
\* every opcode but CXNN the outcome is unique).
NextOpcode == Fetch(chip8)
AfterExecute == executeInstruction(chip8, 0)
Byte == 0..255

\* C1: the stack pointer stays within 0..16.
C1_StackPointerInRange == chip8.sp \in 0..STACK_SIZE

\* C2: the program counter stays within 0..0xFFF.
C2_ProgramCounterInRange == chip8.pc \in 0..(MEM_SIZE - 1)

\* C3: every register V0..VF holds a defined integer in 0..255.
C3_RegistersAreBytes ==
  \A r \in 0..(NUM_REGISTERS - 1) : chip8.v[r] \in Byte

\* C4: each of the 16 stack entries holds an address in 0..0xFFF.
C4_StackEntriesAreAddresses ==
  \A e \in 0..(STACK_SIZE - 1) : chip8.stack[e] \in 0..(MEM_SIZE - 1)

\* C5: the index register stays within 0..0xFFF.
C5_IndexInRange == chip8.i \in 0..(MEM_SIZE - 1)

\* C6: 8XY4 on 8-bit registers leaves V[x]_pre + V[y]_pre =
\* 256 * VF_post + V[x]_post with VF_post the carry bit, for every x and y.
C6_AddCarryIdentity ==
  LET x == FieldX(NextOpcode)
      y == FieldY(NextOpcode)
      pre == chip8.v
      post == AfterExecute.v
  IN (Group(NextOpcode) = 8 /\ FieldN(NextOpcode) = 4
      /\ pre[x] \in Byte /\ pre[y] \in Byte)
     => /\ post[15] \in {0, 1}
        /\ pre[x] + pre[y] = 256 * post[15] + post[x]

\* C7: 8XY5 on 8-bit registers sets VF to 1 exactly when V[x]_pre > V[y]_pre
\* and V[x] to (V[x]_pre - V[y]_pre) mod 256, for every x and y.
C7_SubtractFromPreValues ==
  LET x == FieldX(NextOpcode)
      y == FieldY(NextOpcode)
      pre == chip8.v
      post == AfterExecute.v
  IN (Group(NextOpcode) = 8 /\ FieldN(NextOpcode) = 5
      /\ pre[x] \in Byte /\ pre[y] \in Byte)
     => IF pre[x] > pre[y]
        THEN post[15] = 1 /\ post[x] = pre[x] - pre[y]
        ELSE post[15] = 0 /\ post[x] = (pre[x] - pre[y]) % 256

\* C8: 8XY7 with x # 0xF on 8-bit registers sets VF to 1 exactly when
\* V[y]_pre > V[x]_pre and V[x] to (V[y]_pre - V[x]_pre) mod 256.
C8_ReverseSubtractFromPreValues ==
  LET x == FieldX(NextOpcode)
      y == FieldY(NextOpcode)
      pre == chip8.v
      post == AfterExecute.v
  IN (Group(NextOpcode) = 8 /\ FieldN(NextOpcode) = 7 /\ x # 15
      /\ pre[x] \in Byte /\ pre[y] \in Byte)
     => /\ post[15] = (IF pre[y] > pre[x] THEN 1 ELSE 0)
        /\ post[x] = (pre[y] - pre[x]) % 256

\* C9: a CALL at address a with sp < 16, followed by a RET as the next
\* executed instruction, leaves pc = a + 2 and sp as it was before the CALL.
C9_CallRetRoundTrip ==
  LET afterCall == AfterExecute
      afterRet == executeInstruction(afterCall, 0)
  IN (IsNum(chip8.pc) /\ Group(NextOpcode) = 2 /\ chip8.sp < STACK_SIZE
      /\ Fetch(afterCall) = RET)
     => afterRet.pc = chip8.pc + 2 /\ afterRet.sp = chip8.sp

\* C9 witness: the RET of a CALL made at sp = 15 has returned to the opcode
\* after the CALL (the fifth of the depth-16 program), the return address
\* still in the slot the CALL filled.
C9_Witness ==
  /\ chip8.lastInstruction = RET
  /\ chip8.sp = STACK_SIZE - 1
  /\ chip8.pc = At(4)
  /\ chip8.stack[STACK_SIZE - 1] = At(4)
  /\ Get(chip8.memory, At(3)) * 256 + Get(chip8.memory, At(3) + 1) = CALL(At(5))

\* C10: a RET executed with sp = 0 changes neither sp nor the stack and
\* leaves pc at the post-fetch address.
C10_UnderflowChangesNothing ==
  (NextOpcode = RET /\ chip8.sp = 0 /\ IsNum(chip8.pc))
  => /\ AfterExecute.sp = 0
     /\ AfterExecute.stack = chip8.stack
     /\ AfterExecute.pc = chip8.pc + 2

\* C11: a CALL (2NNN) executed with sp = 16 pushes nothing: sp stays 16, the
\* 16 stack entries are unchanged and the stack holds no 17th entry.
C11_OverflowChangesNothing ==
  (Group(NextOpcode) = 2 /\ chip8.sp = STACK_SIZE /\ IsNum(chip8.pc))
  => /\ AfterExecute.sp = STACK_SIZE
     /\ AfterExecute.stack = chip8.stack
     /\ DOMAIN AfterExecute.stack = 0..(STACK_SIZE - 1)

\* C12: while waitingForKeyPress is true a call of executeInstruction()
\* fetches nothing and leaves pc, the registers, memory and the framebuffer
\* unchanged.
C12_StepRespectsKeyWait ==
  chip8.waitingForKeyPress
  => \A t \in executeInstructionOutcomes(chip8) :
        /\ t.pc = chip8.pc
        /\ t.lastInstruction = chip8.lastInstruction
        /\ t.v = chip8.v
        /\ t.memory = chip8.memory
        /\ t.display = chip8.display

\* C13: executing FX0A with register field x sets waitingForKeyPress and
\* keyRegister = x; the next keyPress(k), k in 0..15, sets keys[k], V[x] = k
\* and clears waitingForKeyPress with pc at the opcode after the FX0A, and an
\* emulateCycle() then starts by executing that opcode.
C13_KeyLatch ==
  LET x == FieldX(NextOpcode)
      waiting == AfterExecute
  IN (Group(NextOpcode) = 15 /\ FieldNN(NextOpcode) = 10 /\ IsNum(chip8.pc))
     => /\ waiting.waitingForKeyPress
        /\ waiting.keyRegister = x
        /\ \A k \in 0..(NUM_KEYS - 1) :
             LET pressed == keyPress(waiting, k)
                 following == Get(pressed.memory, chip8.pc + 2) * 256
                                + Get(pressed.memory, chip8.pc + 3)
             IN /\ pressed.keys[k]
                /\ DOMAIN pressed.keys = 0..(NUM_KEYS - 1)
                /\ pressed.v[x] = k
                /\ ~pressed.waitingForKeyPress
                /\ pressed.pc = chip8.pc + 2
                /\ ~pressed.paused =>
                     \A u \in emulateCycleOutcomes(pressed) :
                       \E e \in executeInstructionOutcomes(pressed) :
                         /\ e.lastInstruction = following
                         /\ u \in {UpdateTimers(t) : t \in CycleLoop({e}, 1)}

\* C13 witness: the program that waits for a key into V5 has been resumed by
\* key 10: V5 = 10, the key is down, the wait is over, and the opcode after
\* the FX0A (FX07 into V2) and the halting jump have executed.
C13_Witness ==
  /\ Get(chip8.memory, At(3)) * 256 + Get(chip8.memory, At(3) + 1) = MISC(5, 10)
  /\ chip8.v[5] = 10
  /\ chip8.keys[10]
  /\ ~chip8.waitingForKeyPress
  /\ chip8.lastInstruction = JP(At(5))
  /\ chip8.pc = At(5)
  /\ chip8.v[2] \in 1..3

\* The opcode is FX0A.
IsFX0A(opcode) == Group(opcode) = 15 /\ FieldNN(opcode) = 10

\* C14: waitingForKeyPress becomes true only in a call that executes FX0A and
\* becomes false only by keyPress() or reset(); while it is true an
\* emulateCycle() leaves it true and pc unchanged, however often it is called,
\* and keyRelease() leaves it true.
C14_ModeMachine ==
  [][ /\ (~chip8.waitingForKeyPress /\ chip8'.waitingForKeyPress)
           => /\ IsFX0A(chip8'.lastInstruction)
              /\ chip8' \in executeInstructionOutcomes(chip8)
                              \cup emulateCycleOutcomes(chip8)
      /\ (chip8.waitingForKeyPress /\ ~chip8'.waitingForKeyPress)
           => \/ chip8' = reset
              \/ \E k \in 0..(NUM_KEYS - 1) : chip8' = keyPress(chip8, k)
      /\ chip8.waitingForKeyPress
           => /\ \A t \in emulateCycleOutcomes(chip8) :
                   t.waitingForKeyPress /\ t.pc = chip8.pc
              /\ \A k \in 0..(NUM_KEYS - 1) :
                   keyRelease(chip8, k).waitingForKeyPress
    ]_vars

\* C14 witness: the program that sets both timers to 3 and waits for a key is
\* still waiting at the opcode after its FX0A after enough cycles to run the
\* delay timer down, a key having been pressed before the wait and released
\* during it.
C14_Witness ==
  /\ chip8.waitingForKeyPress
  /\ chip8.lastInstruction = MISC(5, 10)
  /\ chip8.pc = At(4)
  /\ chip8.v[1] = 3
  /\ chip8.delayTimer = 0
  /\ ~chip8.keys[10]

\* The program has halted in a jump to itself: from here no FX15 or FX18
\* executes again.
Halted == IsNum(chip8.pc) /\ NextOpcode = JP(chip8.pc)

\* C15: once the program executes no more FX15/FX18 (it has halted in a jump
\* to itself), the repeated unpaused emulateCycle() calls of the run timer
\* bring both timers to 0.
C15_TimersReachZero ==
  (Halted /\ ~chip8.paused) ~> (chip8.delayTimer = 0 /\ chip8.soundTimer = 0)

\* C16: while paused is true emulateCycle() changes no state at all: the
\* machine after the call is the machine before it, field by field.
C16_PausedIsNoOp ==
  chip8.paused => emulateCycleOutcomes(chip8) = {chip8}

\* C16 witness: a paused machine with both timers running and an instruction
\* ready to execute (the timer program stopped before its FX07).
C16_Witness ==
  /\ chip8.paused
  /\ ~chip8.waitingForKeyPress
  /\ chip8.delayTimer = 3
  /\ chip8.soundTimer = 3
  /\ chip8.pc = At(3)
  /\ NextOpcode = MISC(1, 7)

\* A timer after the tick of one cycle.
Ticked(timer) == IF IsNum(timer) /\ timer > 0 THEN timer - 1 ELSE timer

\* The machines after at most n executeInstruction() calls in a row from the
\* machines of S, none of them made once the machine waits for a key.
RECURSIVE StepsInOrder(_, _)
StepsInOrder(S, n) ==
  IF n = 0 THEN S
  ELSE StepsInOrder(UNION {IF s.waitingForKeyPress THEN {s}
                           ELSE executeInstructionOutcomes(s) : s \in S},
                    n - 1)

\* C17: an unpaused emulateCycle() is at most `speed` instructions executed
\* in program order, none after an FX0A of the batch, followed by the timer
\* decrement; so the cycle stops right behind the FX0A that started a wait,
\* and an FX07 that ended the batch has read the delay timer as it was before
\* the decrement.
C17_BatchOrdering ==
  LET outcomes == emulateCycleOutcomes(chip8)
  IN ~chip8.paused
     => /\ outcomes =
             { [b EXCEPT !.delayTimer = Ticked(b.delayTimer),
                         !.soundTimer = Ticked(b.soundTimer)] :
                 b \in StepsInOrder({chip8}, chip8.speed) }
        /\ \A t \in outcomes :
             /\ (~chip8.waitingForKeyPress /\ t.waitingForKeyPress)
                  => /\ IsFX0A(t.lastInstruction)
                     /\ Fetch([t EXCEPT !.pc = JsSub(t.pc, 2)])
                          = t.lastInstruction
             /\ (~chip8.waitingForKeyPress /\ Group(t.lastInstruction) = 15
                 /\ FieldNN(t.lastInstruction) = 7)
                  => t.delayTimer = Ticked(t.v[FieldX(t.lastInstruction)])

\* C17 witness: the first cycle of the timer program at speed 10 has set the
\* delay timer to 3 and read it back into V1 in the same batch: V1 holds 3,
\* the timer, decremented after the batch, holds 2.
C17_Witness ==
  /\ Fetch([chip8 EXCEPT !.pc = At(0)]) = LD(0, 3)
  /\ chip8.speed = 10
  /\ chip8.lastInstruction = MISC(1, 7)
  /\ chip8.v[1] = 3
  /\ chip8.delayTimer = 2
  /\ chip8.soundTimer = 2
  /\ chip8.pc = At(4)

\* C18: the machine as reset() leaves it, whatever it was before (reset()
\* assigns every field), has: memory of 4096 cells, the font table in cells
\* 0..79 and 0 elsewhere; V0..VF, I, sp, the 16 stack entries and both timers
\* 0; pc = 0x200; all 32 x 64 framebuffer cells 0; all 16 keys released;
\* drawFlag, paused and waitingForKeyPress false; speed 10.
C18_ResetPostcondition ==
  chip8 = reset
  => /\ DOMAIN chip8.memory = 0..4095
     /\ \A a \in 0..79 : chip8.memory[a] = fontset[a + 1]
     /\ \A a \in 80..4095 : chip8.memory[a] = 0
     /\ DOMAIN chip8.v = 0..15 /\ \A r \in 0..15 : chip8.v[r] = 0
     /\ chip8.i = 0
     /\ chip8.pc = 512
     /\ chip8.sp = 0
     /\ DOMAIN chip8.stack = 0..15 /\ \A e \in 0..15 : chip8.stack[e] = 0
     /\ chip8.delayTimer = 0 /\ chip8.soundTimer = 0
     /\ DOMAIN chip8.display = 0..31
     /\ \A row \in 0..31 :
          /\ DOMAIN chip8.display[row] = 0..63
          /\ \A col \in 0..63 : chip8.display[row][col] = 0
     /\ DOMAIN chip8.keys = 0..15 /\ \A k \in 0..15 : ~chip8.keys[k]
     /\ ~chip8.drawFlag /\ ~chip8.paused /\ ~chip8.waitingForKeyPress
     /\ chip8.speed = 10

\* C18 witness: the machine as a reset() has just left it, the first font
\* byte in cell 0.
C18_Witness == chip8 = reset /\ chip8.memory[0] = 240 /\ chip8.pc = ROM_START

\* C19: loadROM with more than 3584 bytes writes nothing to memory and
\* memory keeps its 4096 cells.
C19_OversizedRomRejected ==
  chip8 = reset
  => \A rom \in Roms :
       Len(rom) > MaxRomBytes
       => LET after == loadROM(chip8, rom)
          IN /\ after.memory = chip8.memory
             /\ DOMAIN after.memory = 0..(MEM_SIZE - 1)

\* A key code outside 0..15.
InvalidKeys == {NUM_KEYS}

\* C20: keyPress(k) and keyRelease(k) with k outside 0..15 change no state:
\* the keys array keeps its 16 entries and, while the machine waits for a
\* key, such a press neither writes V[keyRegister] nor ends the wait.
C20_InvalidKeyIgnored ==
  \A k \in InvalidKeys :
    LET pressed == keyPress(chip8, k)
        released == keyRelease(chip8, k)
    IN /\ pressed = chip8
       /\ released = chip8
       /\ DOMAIN pressed.keys = 0..(NUM_KEYS - 1)
       /\ DOMAIN released.keys = 0..(NUM_KEYS - 1)
       /\ chip8.waitingForKeyPress
          => /\ pressed.v = chip8.v
             /\ pressed.waitingForKeyPress

\* The opcodes outside the instruction table: 0NNN other than 00E0 and 00EE,
\* 8XY8..8XYD and 8XYF, EXnn other than EX9E and EXA1, FXnn outside the
\* listed set, and 5XYn and 9XYn with n # 0.
NotInTable(opcode) ==
  LET g == Group(opcode)
      n == FieldN(opcode)
      nn == FieldNN(opcode)
  IN \/ g = 0 /\ opcode \notin {CLS, RET}
     \/ g = 8 /\ n \in (8..13) \cup {15}
     \/ g = 14 /\ nn \notin {158, 161}
     \/ g = 15 /\ nn \notin {7, 10, 21, 24, 30, 41, 51, 85, 101}
     \/ g \in {5, 9} /\ n # 0

\* C21: executing an opcode that is not in the instruction table advances pc
\* by exactly 2 and changes nothing else except lastInstruction.
C21_UnknownOpcodeEffectFree ==
  (IsNum(chip8.pc) /\ NotInTable(NextOpcode))
  => AfterExecute = [chip8 EXCEPT !.pc = chip8.pc + 2,
                                  !.lastInstruction = NextOpcode]

\* A memory of exactly 4096 cells, each holding a value in 0..255.
WellFormedMemory(m) ==
  DOMAIN m = 0..(MEM_SIZE - 1) /\ \A a \in 0..(MEM_SIZE - 1) : m[a] \in Byte

\* C22: on a machine with pc and I within 0..0xFFF, byte registers and a
\* well-formed memory, executeInstruction() reads and writes no memory
\* address above 0xFFF and leaves memory with exactly 4096 byte cells.
C22_MemoryBounds ==
  (/\ chip8.pc \in 0..(MEM_SIZE - 1)
   /\ chip8.i \in 0..(MEM_SIZE - 1)
   /\ \A r \in 0..(NUM_REGISTERS - 1) : chip8.v[r] \in Byte
   /\ WellFormedMemory(chip8.memory))
  => /\ MemoryAccesses(chip8) \subseteq 0..(MEM_SIZE - 1)
     /\ \A t \in executeInstructionOutcomes(chip8) : WellFormedMemory(t.memory)

\* The opcodes of the instruction table that are not a jump, call, return or
\* skip: 00E0, 6XNN, 7XNN, 8XYn, ANNN, CXNN, DXYN, FXnn.
IsNonBranch(opcode) ==
  \/ opcode = CLS
  \/ Group(opcode) \in {6, 7, 8, 10, 12, 13, 15} /\ ~NotInTable(opcode)

\* The skip opcodes of the instruction table: 3XNN, 4XNN, 5XY0, 9XY0, EX9E,
\* EXA1.
IsSkip(opcode) ==
  \/ Group(opcode) \in {3, 4}
  \/ Group(opcode) \in {5, 9} /\ FieldN(opcode) = 0
  \/ Group(opcode) = 14 /\ FieldNN(opcode) \in {158, 161}

\* The condition of a skip opcode as the instruction table states it, on
\* byte registers: V[x] == nn, V[x] != nn, V[x] == V[y], V[x] != V[y],
\* keys[V[x] & 0xF], !keys[V[x] & 0xF].
SkipCondition(s, opcode) ==
  LET g == Group(opcode)
      vx == s.v[FieldX(opcode)]
      vy == s.v[FieldY(opcode)]
  IN CASE g = 3 -> vx = FieldNN(opcode)
       [] g = 4 -> vx # FieldNN(opcode)
       [] g = 5 -> vx = vy
       [] g = 9 -> vx # vy
       [] g = 14 /\ FieldNN(opcode) = 158 -> s.keys[vx % 16]
       [] OTHER -> ~s.keys[vx % 16]

\* C23: executeInstruction() on an opcode that is not a jump, call, return
\* or skip leaves pc at the pre-fetch pc + 2; on a skip opcode it leaves pc
\* at the pre-fetch pc + 4 when the opcode's condition holds and at the
\* pre-fetch pc + 2 otherwise.
C23_PcStep ==
  (/\ IsNum(chip8.pc)
   /\ chip8.v[FieldX(NextOpcode)] \in Byte
   /\ chip8.v[FieldY(NextOpcode)] \in Byte)
  => /\ IsNonBranch(NextOpcode)
          => \A t \in executeInstructionOutcomes(chip8) : t.pc = chip8.pc + 2
     /\ IsSkip(NextOpcode)
          => AfterExecute.pc =
               chip8.pc + (IF SkipCondition(chip8, NextOpcode) THEN 4 ELSE 2)

\* C24: after a DXYN drawFlag is true and VF is 0 or 1, with VF = 1 exactly
\* when at least one pixel that was on before the draw is off after it.
C24_DrawFlags ==
  Group(NextOpcode) = 13
  => /\ AfterExecute.drawFlag
     /\ AfterExecute.v[15] \in {0, 1}
     /\ AfterExecute.v[15] = 1
          <=> \E row \in 0..(DISPLAY_HEIGHT - 1), col \in 0..(DISPLAY_WIDTH - 1) :
                /\ chip8.display[row][col] = 1
                /\ AfterExecute.display[row][col] = 0

\* C24 witness: the second of the three draws (columns 4..11 over columns
\* 0..7) has turned pixels 4..7 of the first row off and pixels 8..11 on, and
\* VF is 1.
C24_Witness ==
  /\ chip8.lastInstruction = DRW(0, 1, 2)
  /\ chip8.pc = At(4)
  /\ chip8.v[0] = 4
  /\ chip8.v[15] = 1
  /\ chip8.drawFlag
  /\ chip8.display[0][3] = 1
  /\ chip8.display[0][4] = 0
  /\ chip8.display[0][8] = 1

\* The next two instructions are DXYN with the same n and the same values in
\* their coordinate registers (I and the sprite bytes are the same because a
\* DXYN changes neither I nor memory).
TwoEqualDraws ==
  LET first == AfterExecute
      second == Fetch(first)
  IN /\ IsNum(chip8.pc)
     /\ Group(NextOpcode) = 13
     /\ Group(second) = 13
     /\ FieldN(second) = FieldN(NextOpcode)
     /\ first.v[FieldX(second)] = chip8.v[FieldX(NextOpcode)]
     /\ first.v[FieldY(second)] = chip8.v[FieldY(NextOpcode)]
     /\ first.i = chip8.i
     /\ first.memory = chip8.memory

\* C25: two successive DXYN with the same V[x], V[y], n, I and sprite bytes
\* leave the framebuffer as it was before the first, and VF is 1 after the
\* second.
C25_DoubleDrawCancels ==
  TwoEqualDraws
  => LET after == executeInstruction(AfterExecute, 0)
     IN after.display = chip8.display /\ after.v[15] = 1

\* The next DXYN turns at least one pixel on.
TurnsPixelOn ==
  \E row \in 0..(DISPLAY_HEIGHT - 1), col \in 0..(DISPLAY_WIDTH - 1) :
    chip8.display[row][col] = 0 /\ AfterExecute.display[row][col] = 1

\* C25 amended: two successive DXYN with the same V[x], V[y], n, I and
\* sprite bytes leave the framebuffer as it was before the first; VF after
\* the second is 1 when the first turned at least one pixel on and 0 when it
\* turned none on (the sprite has no set bit, or all its pixels were on).
C25_DoubleDrawCancelsAmended ==
  TwoEqualDraws
  => LET after == executeInstruction(AfterExecute, 0)
     IN /\ after.display = chip8.display
        /\ after.v[15] = (IF TurnsPixelOn THEN 1 ELSE 0)

\* C25 witness: the program that draws the sprite FF 81 three times in a row
\* has executed the first two draws: the framebuffer is empty again and VF is 1.
C25_Witness ==
  /\ Fetch([chip8 EXCEPT !.pc = At(1)]) = DRW(0, 1, 2)
  /\ chip8.lastInstruction = DRW(0, 1, 2)
  /\ chip8.pc = At(3)
  /\ Get(chip8.memory, At(5)) = 255
  /\ chip8.v[15] = 1
  /\ chip8.display = reset.display

\* Bit col (0 = leftmost) of a sprite byte is set; a cell that holds no
\* number has no set bit.
SpriteBit(byte, col) == IsNum(byte) /\ (byte \div (2 ^ (7 - col))) % 2 = 1

\* C26: a DXYN on byte registers toggles exactly the cells at row
\* (V[y] + row) mod 32 and column (V[x] + col) mod 64 for the set bits
\* (row, col) of the sprite, row in 0..n-1 and col in 0..7, and the
\* framebuffer stays a 32 x 64 grid.
C26_SpriteWrap ==
  LET vx == chip8.v[FieldX(NextOpcode)]
      vy == chip8.v[FieldY(NextOpcode)]
      bits == {rc \in (0..(FieldN(NextOpcode) - 1)) \X (0..7) :
                 SpriteBit(Get(chip8.memory, JsAdd(chip8.i, rc[1])), rc[2])}
      touched == {<<(vy + rc[1]) % DISPLAY_HEIGHT,
                    (vx + rc[2]) % DISPLAY_WIDTH>> : rc \in bits}
  IN (Group(NextOpcode) = 13 /\ vx \in Byte /\ vy \in Byte)
     => AfterExecute.display =
          [row \in 0..(DISPLAY_HEIGHT - 1) |->
             [col \in 0..(DISPLAY_WIDTH - 1) |->
                IF <<row, col>> \in touched
                THEN 1 - chip8.display[row][col]
                ELSE chip8.display[row][col]]]

\* C26 witness: the one-bit sprite has been drawn at (63, 0) and then at
\* (64, 0): the cells of row 0 in columns 63 and 0 are on and nothing else in
\* that row is.
C26_Witness ==
  /\ chip8.lastInstruction = DRW(0, 1, 1)
  /\ chip8.v[0] = 64
  /\ chip8.v[1] = 0
  /\ Get(chip8.memory, chip8.i) = 128
  /\ \A col \in 0..(DISPLAY_WIDTH - 1) :
       chip8.display[0][col] = (IF col \in {0, 63} THEN 1 ELSE 0)

\* C27: FX33 on a register that holds any value b in 0..255 leaves three
\* digits below 10 in mem[I], mem[I+1], mem[I+2] with
\* 100 * mem[I] + 10 * mem[I+1] + mem[I+2] = b, and leaves I and all
\* registers unchanged.
C27_BcdDigits ==
  (Group(NextOpcode) = 15 /\ FieldNN(NextOpcode) = 51 /\ IsNum(chip8.i))
  => \A b \in Byte :
       LET pre == [chip8 EXCEPT !.v[FieldX(NextOpcode)] = b]
           post == executeInstruction(pre, 0)
           hundreds == Get(post.memory, pre.i)
           tens == Get(post.memory, pre.i + 1)
           ones == Get(post.memory, pre.i + 2)
       IN /\ hundreds \in 0..9
          /\ tens \in 0..9
          /\ ones \in 0..9
          /\ 100 * hundreds + 10 * tens + ones = b
          /\ post.i = pre.i
          /\ post.v = pre.v

\* C27 witness: FX33 has stored the digits 1, 2, 3 of V0 = 123 at I.
C27_Witness ==
  /\ chip8.lastInstruction = MISC(0, 51)
  /\ chip8.v[0] = 123
  /\ chip8.i = At(4)
  /\ Get(chip8.memory, chip8.i) = 1
  /\ Get(chip8.memory, chip8.i + 1) = 2
  /\ Get(chip8.memory, chip8.i + 2) = 3

\* C28: FX55 with field x leaves I and every register unchanged; after it,
\* whatever V0..Vx are overwritten with, FX65 with the same x and I and the
\* cells mem[I..I+x] untouched restores V0..Vx to their values at the time of
\* the FX55 and leaves I and V[x+1..F] unchanged.
C28_StoreLoadRoundTrip ==
  LET x == FieldX(NextOpcode)
      stored == AfterExecute
  IN (Group(NextOpcode) = 15 /\ FieldNN(NextOpcode) = 85 /\ IsNum(chip8.i))
     => /\ stored.i = chip8.i
        /\ stored.v = chip8.v
        /\ \A c \in ByteSamples :
             LET changed == [stored EXCEPT !.v =
                               [r \in 0..(NUM_REGISTERS - 1) |->
                                  IF r <= x THEN c ELSE stored.v[r]]]
                 loaded == Dispatch(changed, MISC(x, 101), 0)
             IN /\ loaded.i = chip8.i
                /\ \A r \in 0..(NUM_REGISTERS - 1) : loaded.v[r] = chip8.v[r]

\* C28 witness: the program that stored V0 = 17, V1 = 34, overwrote them
\* with 0 and 255 and loaded them back has both values again, V2 and I as
\* they were.
C28_Witness ==
  /\ Fetch([chip8 EXCEPT !.pc = At(6)]) = LD(1, 255)
  /\ chip8.lastInstruction = MISC(1, 101)
  /\ chip8.i = At(9)
  /\ chip8.v[0] = 17
  /\ chip8.v[1] = 34
  /\ chip8.v[2] = 51
  /\ Get(chip8.memory, chip8.i) = 17
  /\ Get(chip8.memory, chip8.i + 1) = 34

\* The mnemonic of the operation the executor performs for an opcode it does
\* not warn about.
ExecutedMnemonic(opcode) ==
  LET g == Group(opcode)
      n == FieldN(opcode)
      nn == FieldNN(opcode)
  IN CASE g = 0 -> IF opcode = CLS THEN "CLS" ELSE "RET"
       [] g \in {1, 11} -> "JP"
       [] g = 2 -> "CALL"
       [] g \in {3, 5} -> "SE"
       [] g \in {4, 9} -> "SNE"
       [] g \in {6, 10} -> "LD"
       [] g = 7 -> "ADD"
       [] g = 8 -> (CASE n = 1 -> "OR" [] n = 2 -> "AND" [] n = 3 -> "XOR"
                      [] n = 4 -> "ADD" [] n = 5 -> "SUB" [] n = 6 -> "SHR"
                      [] n = 7 -> "SUBN" [] n = 14 -> "SHL" [] OTHER -> "LD")
       [] g = 12 -> "RND"
       [] g = 13 -> "DRW"
       [] g = 14 -> IF nn = 158 THEN "SKP" ELSE "SKNP"
       [] OTHER -> IF nn = 30 THEN "ADD" ELSE "LD"

\* C29: for the opcode at pc, disassembleInstruction returns
\* UNKNOWN (<hex>) exactly when the executor takes a warn path for it and
\* the mnemonic of the executed operation otherwise, and
\* getInstructionDescription returns its unknown text exactly when the
\* executor takes a warn path.
C29_DisassemblerAgrees ==
  LET opcode == NextOpcode
      text == disassembleInstruction(opcode)
      description == getInstructionDescription(opcode)
  IN /\ text = <<"UNKNOWN", " (">> \o ToHex(opcode) \o <<")">>
          <=> WarnsUnknown(opcode)
     /\ ~WarnsUnknown(opcode) => Head(text) = ExecutedMnemonic(opcode)
     /\ description = <<"Unknown instruction (">> \o ToHex(opcode) \o <<")">>
          <=> WarnsUnknown(opcode)

\* C30: EX9E skips exactly when the key V[x] & 0xF is pressed and EXA1
\* exactly when it is not, for every V[x] in 0..255.
C30_KeySkipMasksIndex ==
  LET vx == chip8.v[FieldX(NextOpcode)]
      nn == FieldNN(NextOpcode)
      skips == AfterExecute.pc = chip8.pc + 4
      stays == AfterExecute.pc = chip8.pc + 2
  IN (Group(NextOpcode) = 14 /\ nn \in {158, 161} /\ IsNum(chip8.pc)
      /\ vx \in Byte)
     => LET pressed == chip8.keys[vx % NUM_KEYS]
        IN IF nn = 158
           THEN IF pressed THEN skips ELSE stays
           ELSE IF pressed THEN stays ELSE skips

\* C31: FX29 on a register that holds a byte leaves I = (V[x] & 0xF) * 5,
\* the start of one of the 16 font glyphs in 0x000..0x04F.
C31_FontAddress ==
  LET vx == chip8.v[FieldX(NextOpcode)]
  IN (Group(NextOpcode) = 15 /\ FieldNN(NextOpcode) = 41 /\ vx \in Byte)
     => /\ AfterExecute.i = (vx % 16) * 5
        /\ AfterExecute.i \in {5 * g : g \in 0..15}

\* C32: the values CXNN can leave in V[x] are exactly r & nn for r in
\* 0..255; CXFF can leave every byte value, 0xFF included.
C32_RandomRange ==
  LET x == FieldX(NextOpcode)
      nn == FieldNN(NextOpcode)
  IN Group(NextOpcode) = 12
     => {t.v[x] : t \in executeInstructionOutcomes(chip8)}
          = {JsAnd(r, nn) : r \in Byte}

\* ROMs loaded on a machine that has run: the test ROM and an empty ROM.
RomSamples == {TestRom, <<>>}

\* loadROM(rom) on the machine s writes the bytes of rom from 0x200 on and
\* changes nothing else.
LoadsInPlace(s, rom) ==
  LET after == loadROM(s, rom)
  IN /\ DOMAIN after.memory = DOMAIN s.memory
     /\ \A a \in DOMAIN s.memory :
          after.memory[a] =
            (IF a >= ROM_START /\ a < ROM_START + Len(rom)
             THEN rom[a - ROM_START + 1] ELSE s.memory[a])
     /\ [after EXCEPT !.memory = s.memory] = s

\* C33: loadROM with at most 3584 bytes sets mem[0x200 + i] = bytes[i] for
\* every i and changes nothing else: on the machine as reset() leaves it, for
\* every ROM the host loads, and on a machine that waits for a key or has a
\* full stack, for the sample ROMs.
C33_LoadRomFrame ==
  /\ chip8 = reset
       => \A rom \in Roms : Len(rom) <= MaxRomBytes => LoadsInPlace(chip8, rom)
  /\ (chip8.waitingForKeyPress \/ chip8.sp = STACK_SIZE)
       => \A rom \in RomSamples : LoadsInPlace(chip8, rom)

\* C33 witness: the test ROM has just been loaded: its 19 bytes are at
\* 0x200..0x212, the font is in place, the cell after the ROM is 0 and the
\* machine is otherwise as reset() left it.
C33_Witness ==
  /\ chip8.memory[ROM_START] = 162
  /\ chip8.memory[ROM_START + 18] = 240
  /\ chip8.memory[ROM_START + 19] = 0
  /\ chip8.memory[0] = 240
  /\ [chip8 EXCEPT !.memory = reset.memory] = reset


\* The machine never clears a set draw flag: from t, no executeInstruction,
\* emulateCycle, keyPress, keyRelease or loadROM leaves drawFlag false.
KeepsDrawFlag(t) ==
  /\ \A u \in executeInstructionOutcomes(t) : u.drawFlag
  /\ \A u \in emulateCycleOutcomes(t) : u.drawFlag
  /\ \A k \in KeySamples : keyPress(t, k).drawFlag /\ keyRelease(t, k).drawFlag
  /\ loadROM(t, <<>>).drawFlag

\* C34: when a step() or a tick of the run interval has finished, drawFlag
\* is false; executeInstruction sets drawFlag only when it executes 00E0 or
\* DXYN, no method of the machine but reset() clears it, and reset() leaves
\* it false.
C34_DrawFlagConsumed ==
  /\ ~chip8.drawFlag
  /\ \A t \in stepOutcomes(chip8) : ~t.drawFlag
  /\ ui.intervals # {} => \A t \in tickOutcomes(chip8) : ~t.drawFlag
  /\ \A t \in executeInstructionOutcomes(chip8) :
       t.drawFlag
       => /\ NextOpcode = CLS \/ Group(NextOpcode) = 13
          /\ KeepsDrawFlag(t)
  /\ ~reset.drawFlag

\* C34 witness: the run timer is active and a tick has run the test ROM up
\* to its wait for a key: the sprite is on the display, and the draw flag the
\* DXYN set is false again.
C34_Witness ==
  /\ ui.running
  /\ ui.intervals # {}
  /\ chip8.waitingForKeyPress
  /\ chip8.lastInstruction = MISC(0, 10)
  /\ chip8.display[8][12] = 1
  /\ ~chip8.drawFlag


\* The run timer discipline of a debugger u: at most one interval timer is
\* active, and one is active exactly when running is true (it is the one
\* whose id runIntervalId holds).
TimerDiscipline(u) ==
  /\ Cardinality(u.intervals) <= 1
  /\ u.intervals # {} <=> u.running
  /\ u.running => u.intervals = {u.runIntervalId}

\* A debugger that is stopped: running is false and no interval timer is
\* active, so no tick can call emulateCycle.
Stopped(u) == ~u.running /\ u.intervals = {}

\* C35: in every state the run timer discipline holds, it holds after one
\* more click on Run/Pause and after a tick, with and without a breakpoint
\* at the pc the tick left (a breakpoint hit stops the run); after reset()
\* the debugger is stopped.
C35_RunTimerDiscipline ==
  /\ TimerDiscipline(ui)
  /\ TimerDiscipline(toggleRun(ui))
  /\ Stopped(debuggerReset(ui))
  /\ ui.running
       => \A t \in tickOutcomes(chip8) :
            /\ TimerDiscipline(tickDebugger(ui, t, breakpoints))
            /\ Stopped(tickDebugger(ui, t, breakpoints \cup {t.pc}))

\* C35 witness: Run has been clicked, paused and clicked again (the second
\* interval timer is the active one) and its ticks have run the test ROM up
\* to its wait for a key.
C35_Witness ==
  /\ ui.running
  /\ ui.created = 2
  /\ ui.intervals = {2}
  /\ chip8.waitingForKeyPress
  /\ chip8.lastInstruction = MISC(0, 10)

====
